---- MODULE Spec2Model ----
(***************************************************************************)
(* Card reward bookkeeping of the Charactle server                         *)
(* (server/routes/rewards.ts): the awardCard handler with its suspension   *)
(* at the difficulty oracle, the in-memory collection store, and the       *)
(* collection and achievements queries.                                    *)
(*                                                                         *)
(* Numbers.  Telemetry is integer: for an integer guessTime g the IEEE     *)
(* double Math.min(30, g) / 30 * 30 equals min(30, g) exactly, so the      *)
(* score is an integer.  Math.random() is a value h/100 with h in 0..99;   *)
(* a roll Math.random() * 100 is compared with integer thresholds only,    *)
(* so h stands for every roll in [h, h+1).  Date.now() is the millisecond  *)
(* clock `now`; it never decreases and two reads may return the same       *)
(* value.  Array.prototype.sort is stable (ES2019).                        *)
(*                                                                         *)
(* A card keeps the fields the bookkeeping reads; its id, unique in the    *)
(* code by timestamp and random suffix, is its ordinal among all cards     *)
(* minted.  The Map `achievements` (rewards.ts:15) is never read or        *)
(* written.  An award response lists the ids of its unlockedAchievements.  *)
(*                                                                         *)
(* The guessing game (server/data/gameState.ts, server/routes/guess.ts):   *)
(* handleGuess with the Map gameStates.  A date (YYYY-MM-DD) is the number *)
(* of its day; a state key `${sessionId}-${date}` is the pair of the two,  *)
(* which the fixed length of a date makes recoverable from the string.     *)
(* The lookups of ../data/characters are not part of the sources at hand:  *)
(* getRandomCharacter returns any character of the catalog, and            *)
(* getCharacterByName may or may not ignore blanks around a name.          *)
(***************************************************************************)
EXTENDS Integers, Sequences, FiniteSets, TLC

VARIABLES
    cardCollections,  \* the Map userId -> CharacterCard[] (rewards.ts:14)
    now,              \* the millisecond clock read by Date.now() / new Date()
    req,              \* per in-flight awardCard invocation: position and locals
    log,              \* history: request and CardReward of every 200 response, in order
    out,              \* the response of the handler that answered last
    gameStates        \* the Map stateKey -> GameStateData (gameState.ts:16)

vars == <<cardCollections, now, req, log, out, gameStates>>

-----------------------------------------------------------------------------
(* Bounds of the model *)

NReq == 2          \* awardCard invocations that may overlap
MaxCards == 2      \* cards minted in the specification Spec
OracleCards == 1   \* cards minted in the specification SpecOracle
SeqCards == 3      \* cards minted in the specification SpecSeq
LongCards == 11    \* cards minted in the specification SpecLong
DrawCards == 1     \* cards minted in the specification SpecDraw
RaceCards == 10    \* cards minted in the specification SpecRace
SupplyCards == 101 \* cards minted in the specification SpecSupply
MaxGuessTime == 31       \* guessTime of the calls in SpecPure, past the cap of 30
MaxWrongAttempts == 21   \* wrongAttempts of the calls in SpecPure, past 100 / 5
MaxSnapshot == 51        \* cards of a stored collection in SpecSnap, past 50
MaxMark == 3             \* last position of a first legendary or mythic card in SpecSnap
MaxDay == 1              \* last day of the clock in SpecGame
MaxGuesses == 2          \* guesses recorded in all game states in SpecGame
MsPerDay == 86400000     \* milliseconds of a day (a date is toISOString().split("T")[0])
MaxClues == 3            \* clues of a game (CardRewardModal.tsx: cluesUsed/3)
MaxClock == 1      \* last value of the millisecond clock
SeqClock == 1      \* last value of the clock in the specification SpecSeq
LongClock == 1     \* last value of the clock in the specification SpecLong

Req == 1..NReq

-----------------------------------------------------------------------------
(* The character catalog, ../data/characters: id, whether its universe is  *)
(* one of the popular universes, whether it declares powers.               *)

CHARACTERS ==
    { [id |-> "spider-man", popularUniverse |-> TRUE, hasPowers |-> TRUE],
      [id |-> "sherlock-holmes", popularUniverse |-> FALSE, hasPowers |-> FALSE] }

\* CHARACTERS.find(c => c.id === characterId): the set of matches (0 or 1)
FindCharacter(characterId) == {c \in CHARACTERS : c.id = characterId}

-----------------------------------------------------------------------------
(* Pure functions of rewards.ts *)

Min(a, b) == IF a < b THEN a ELSE b
Max(a, b) == IF a > b THEN a ELSE b

\* a variant of calculatePerformanceScore without the early return for a
\* lost game
calculatePerformanceScore_IgnoreWon(guessTime, cluesUsed, wrongAttempts, isWon) ==
    LET timePenalty == Min(30, guessTime)
        score == 100 - timePenalty - cluesUsed * 10 - wrongAttempts * 5
    IN  Max(0, Min(100, score))

\* a variant of calculatePerformanceScore that returns the score unclamped
calculatePerformanceScore_NoClamp(guessTime, cluesUsed, wrongAttempts, isWon) ==
    IF ~isWon THEN 0
    ELSE LET timePenalty == Min(30, guessTime)
         IN  100 - timePenalty - cluesUsed * 10 - wrongAttempts * 5

\* a variant of calculatePerformanceScore whose time penalty is not capped
calculatePerformanceScore_RawTime(guessTime, cluesUsed, wrongAttempts, isWon) ==
    IF ~isWon THEN 0
    ELSE LET timePenalty == guessTime
             score == 100 - timePenalty - cluesUsed * 10 - wrongAttempts * 5
         IN  Max(0, Min(100, score))

\* calculatePerformanceScore; isWon is the truthiness of the field
calculatePerformanceScore(guessTime, cluesUsed, wrongAttempts, isWon) ==
    IF ~isWon THEN 0
    ELSE LET timePenalty == Min(30, guessTime)
             score == 100 - timePenalty - cluesUsed * 10 - wrongAttempts * 5
         IN  Max(0, Min(100, score))

\* a variant of determineRarity without its last bucket: scores below 40
\* are drawn like scores 40-59
determineRarity_NoLowBucket(performanceScore, roll) ==
    IF performanceScore >= 95 THEN
        IF roll < 20 THEN "mythic"
        ELSE IF roll < 60 THEN "legendary"
        ELSE "epic"
    ELSE IF performanceScore >= 80 THEN
        IF roll < 5 THEN "mythic"
        ELSE IF roll < 30 THEN "legendary"
        ELSE IF roll < 70 THEN "epic"
        ELSE "rare"
    ELSE IF performanceScore >= 60 THEN
        IF roll < 40 THEN "epic"
        ELSE IF roll < 80 THEN "rare"
        ELSE "common"
    ELSE
        IF roll < 10 THEN "epic"
        ELSE IF roll < 50 THEN "rare"
        ELSE "common"

\* a variant of determineRarity whose first bucket starts above 95
determineRarity_Above95(performanceScore, roll) ==
    IF performanceScore > 95 THEN
        IF roll < 20 THEN "mythic"
        ELSE IF roll < 60 THEN "legendary"
        ELSE "epic"
    ELSE IF performanceScore >= 80 THEN
        IF roll < 5 THEN "mythic"
        ELSE IF roll < 30 THEN "legendary"
        ELSE IF roll < 70 THEN "epic"
        ELSE "rare"
    ELSE IF performanceScore >= 60 THEN
        IF roll < 40 THEN "epic"
        ELSE IF roll < 80 THEN "rare"
        ELSE "common"
    ELSE IF performanceScore >= 40 THEN
        IF roll < 10 THEN "epic"
        ELSE IF roll < 50 THEN "rare"
        ELSE "common"
    ELSE
        IF roll < 20 THEN "rare" ELSE "common"

\* a variant of determineRarity whose first comparison is inclusive
determineRarity_Inclusive(performanceScore, roll) ==
    IF performanceScore >= 95 THEN
        IF roll <= 20 THEN "mythic"
        ELSE IF roll < 60 THEN "legendary"
        ELSE "epic"
    ELSE IF performanceScore >= 80 THEN
        IF roll < 5 THEN "mythic"
        ELSE IF roll < 30 THEN "legendary"
        ELSE IF roll < 70 THEN "epic"
        ELSE "rare"
    ELSE IF performanceScore >= 60 THEN
        IF roll < 40 THEN "epic"
        ELSE IF roll < 80 THEN "rare"
        ELSE "common"
    ELSE IF performanceScore >= 40 THEN
        IF roll < 10 THEN "epic"
        ELSE IF roll < 50 THEN "rare"
        ELSE "common"
    ELSE
        IF roll < 20 THEN "rare" ELSE "common"

\* determineRarity with its Math.random() * 100 passed as roll
determineRarity(performanceScore, roll) ==
    IF performanceScore >= 95 THEN
        IF roll < 20 THEN "mythic"
        ELSE IF roll < 60 THEN "legendary"
        ELSE "epic"
    ELSE IF performanceScore >= 80 THEN
        IF roll < 5 THEN "mythic"
        ELSE IF roll < 30 THEN "legendary"
        ELSE IF roll < 70 THEN "epic"
        ELSE "rare"
    ELSE IF performanceScore >= 60 THEN
        IF roll < 40 THEN "epic"
        ELSE IF roll < 80 THEN "rare"
        ELSE "common"
    ELSE IF performanceScore >= 40 THEN
        IF roll < 10 THEN "epic"
        ELSE IF roll < 50 THEN "rare"
        ELSE "common"
    ELSE
        IF roll < 20 THEN "rare" ELSE "common"

\* a variant of determineVariant whose epic branch tests shiny before
\* holographic
determineVariant_EpicShinyFirst(rarity, roll) ==
    IF rarity = "mythic" THEN
        IF roll < 50 THEN "animated"
        ELSE IF roll < 80 THEN "holographic"
        ELSE "shiny"
    ELSE IF rarity = "legendary" THEN
        IF roll < 20 THEN "animated"
        ELSE IF roll < 50 THEN "holographic"
        ELSE IF roll < 80 THEN "shiny"
        ELSE "standard"
    ELSE IF rarity = "epic" THEN
        IF roll < 40 THEN "shiny"
        ELSE IF roll < 10 THEN "holographic"
        ELSE "standard"
    ELSE IF rarity = "rare" THEN
        IF roll < 20 THEN "shiny" ELSE "standard"
    ELSE "standard"

\* determineVariant with its Math.random() * 100 passed as roll
determineVariant(rarity, roll) ==
    IF rarity = "mythic" THEN
        IF roll < 50 THEN "animated"
        ELSE IF roll < 80 THEN "holographic"
        ELSE "shiny"
    ELSE IF rarity = "legendary" THEN
        IF roll < 20 THEN "animated"
        ELSE IF roll < 50 THEN "holographic"
        ELSE IF roll < 80 THEN "shiny"
        ELSE "standard"
    ELSE IF rarity = "epic" THEN
        IF roll < 10 THEN "holographic"
        ELSE IF roll < 40 THEN "shiny"
        ELSE "standard"
    ELSE IF rarity = "rare" THEN
        IF roll < 20 THEN "shiny" ELSE "standard"
    ELSE "standard"

\* the maxSupply conditional of awardCard
maxSupplyOf(rarity) ==
    IF rarity = "mythic" THEN 100
    ELSE IF rarity = "legendary" THEN 500
    ELSE IF rarity = "epic" THEN 1000
    ELSE IF rarity = "rare" THEN 5000
    ELSE 10000

\* Math.floor(Math.random() * n) for Math.random() = h/100
FloorRandom(h, n) == (h * n) \div 100

\* Math.round of a non-negative number given in tenths (halves round up)
MathRound(tenths) == (tenths + 5) \div 10

\* calculateCharacterStats, up to the fetch: the popularity draw
popularityOf(character, h) ==
    IF character.popularUniverse THEN FloorRandom(h, 30) + 70
    ELSE FloorRandom(h, 50) + 30

\* a variant of oracleDifficulty without the try/catch
oracleDifficulty_NoCatch(oracle, h) ==
    IF oracle.kind = "ok" THEN [threw |-> FALSE, value |-> MathRound(oracle.score10)]
    ELSE IF oracle.kind = "notOk" THEN [threw |-> FALSE, value |-> 50]
    ELSE [threw |-> TRUE, value |-> 50]

\* calculateCharacterStats, the try/catch around the oracle call.
\* oracle.kind: "throw" (fetch rejects), "notOk" (response.ok false),
\* "badBody" (response.json() rejects), "ok" (difficulty_score = score10/10,
\* a number in [0, 100] as the oracle documents it).
\* The result says whether an exception leaves the try/catch.
oracleDifficulty(oracle, h) ==
    IF oracle.kind = "ok" THEN [threw |-> FALSE, value |-> MathRound(oracle.score10)]
    ELSE IF oracle.kind = "notOk" THEN [threw |-> FALSE, value |-> 50]
    ELSE [threw |-> FALSE, value |-> FloorRandom(h, 100)]

\* calculateCharacterStats, after the oracle call: the power draw
powerOf(character, h) ==
    IF character.hasPowers THEN FloorRandom(h, 30) + 60
    ELSE FloorRandom(h, 60) + 20

\* new Date().toISOString(): the clock as <<seconds, milliseconds>>
toISOString(ms) == <<ms \div 1000, ms % 1000>>

\* new Date(iso).getTime()
getTime(iso) == iso[1] * 1000 + iso[2]

-----------------------------------------------------------------------------
(* The collection store *)

\* the array getCollection('default') returns, without creating it
Coll == IF "default" \in DOMAIN cardCollections
        THEN cardCollections["default"] ELSE <<>>

\* a variant of getCollection that sets a new empty array on every call
getCollection_AlwaysNew(userId) ==
    [u \in DOMAIN cardCollections \cup {userId} |->
        IF u = userId THEN <<>> ELSE cardCollections[u]]

\* getCollection(userId): creates the empty array on first use
getCollection(userId) ==
    IF userId \in DOMAIN cardCollections THEN cardCollections
    ELSE [u \in DOMAIN cardCollections \cup {userId} |->
            IF u = userId THEN <<>> ELSE cardCollections[u]]

\* collection.filter(c => c.characterId === characterId).length
CountCharacter(s, characterId) ==
    Cardinality({i \in 1..Len(s) : s[i].characterId = characterId})

\* collection.filter(c => c.rarity === rarity).length
CountRarity(s, rarity) == Cardinality({i \in 1..Len(s) : s[i].rarity = rarity})

\* one insertion step of the stable sort by descending getTime(unlockedAt):
\* c goes after every element that is not older than it
InsertNewestFirst(s, c) ==
    LET k == Cardinality({i \in 1..Len(s) :
                  getTime(s[i].unlockedAt) >= getTime(c.unlockedAt)})
    IN  SubSeq(s, 1, k) \o <<c>> \o SubSeq(s, k + 1, Len(s))

RECURSIVE SortPrefix(_, _)
SortPrefix(s, n) ==
    IF n = 0 THEN <<>> ELSE InsertNewestFirst(SortPrefix(s, n - 1), s[n])

\* collection.sort((a, b) => getTime(b.unlockedAt) - getTime(a.unlockedAt))
SortNewestFirst(s) == SortPrefix(s, Len(s))

-----------------------------------------------------------------------------
(* Responses *)

Rarities == {"common", "rare", "epic", "legendary", "mythic"}

\* an absent (undefined) unlockedAt
Undefined == <<>>

\* a variant of RarityCount without the fill with 0: the reduce alone
RarityCount_NoFill(s) ==
    [x \in {s[i].rarity : i \in 1..Len(s)} |-> CountRarity(s, x)]

\* the reduce and the fill with 0 of getCardCollection
RarityCount(s) == [x \in Rarities |-> CountRarity(s, x)]

\* new Set(collection.map(c => c.characterId)).size
UniqueCharacters(s) == Cardinality({s[i].characterId : i \in 1..Len(s)})

\* the CardCollection response built from the array after its in-place sort;
\* completionPercentage is the fraction num/den
CollectionResponse(sorted, counted) ==
    [op |-> "collection",
     cards |-> sorted,
     totalCards |-> Len(sorted),
     uniqueCharacters |-> UniqueCharacters(counted),
     rarityCount |-> RarityCount(counted),
     completionPercentage |->
         [num |-> UniqueCharacters(counted) * 100, den |-> Cardinality(CHARACTERS)]]

\* collection.find(c => c.rarity === rarity)?.unlockedAt
FirstUnlockedAt(s, rarity) ==
    LET hits == {i \in 1..Len(s) : s[i].rarity = rarity}
    IN  IF hits = {} THEN Undefined
        ELSE s[CHOOSE i \in hits : \A j \in hits : i <= j].unlockedAt

\* a variant of CountAchievement whose unlockedAt needs more cards than the
\* target
CountAchievement_After(s, id, target) ==
    [id |-> id,
     progress |-> Min(Len(s), target),
     maxProgress |-> target,
     unlockedAt |-> IF Len(s) > target THEN s[target].unlockedAt ELSE Undefined]

\* one entry of allAchievements that counts cards
CountAchievement(s, id, target) ==
    [id |-> id,
     progress |-> Min(Len(s), target),
     maxProgress |-> target,
     unlockedAt |-> IF Len(s) >= target THEN s[target].unlockedAt ELSE Undefined]

\* one entry of allAchievements about a rarity
RarityAchievement(s, id, rarity) ==
    [id |-> id,
     progress |-> Min(CountRarity(s, rarity), 1),
     maxProgress |-> 1,
     unlockedAt |-> FirstUnlockedAt(s, rarity)]

\* allAchievements of getAchievements
allAchievements(s) ==
    << CountAchievement(s, "first-card", 1),
       CountAchievement(s, "collector", 10),
       CountAchievement(s, "master-collector", 50),
       RarityAchievement(s, "legendary-pull", "legendary"),
       RarityAchievement(s, "mythic-hunter", "mythic") >>

\* a variant of unlockedAchievementsOf with level-triggered count checks
unlockedAchievementsOf_AtLeast(s, rarity, performanceScore) ==
    (IF Len(s) >= 1 THEN <<"first-card">> ELSE <<>>)
    \o (IF Len(s) >= 10 THEN <<"collector">> ELSE <<>>)
    \o (IF rarity = "legendary"
           /\ CountRarity(s, "legendary") = 1
        THEN <<"legendary-pull">> ELSE <<>>)
    \o (IF performanceScore = 100 THEN <<"perfect-game">> ELSE <<>>)

\* a variant of unlockedAchievementsOf whose legendary-pull looks at the
\* rarity only
unlockedAchievementsOf_AnyLegendary(s, rarity, performanceScore) ==
    (IF Len(s) = 1 THEN <<"first-card">> ELSE <<>>)
    \o (IF Len(s) = 10 THEN <<"collector">> ELSE <<>>)
    \o (IF rarity = "legendary" THEN <<"legendary-pull">> ELSE <<>>)
    \o (IF performanceScore = 100 THEN <<"perfect-game">> ELSE <<>>)

\* the unlockedAchievements of awardCard, as the ids pushed, in order;
\* s is the collection after the push
unlockedAchievementsOf(s, rarity, performanceScore) ==
    (IF Len(s) = 1 THEN <<"first-card">> ELSE <<>>)
    \o (IF Len(s) = 10 THEN <<"collector">> ELSE <<>>)
    \o (IF rarity = "legendary"
           /\ CountRarity(s, "legendary") = 1
        THEN <<"legendary-pull">> ELSE <<>>)
    \o (IF performanceScore = 100 THEN <<"perfect-game">> ELSE <<>>)

-----------------------------------------------------------------------------
(* awardCard *)

Fields == {"characterId", "guessTime", "cluesUsed", "wrongAttempts", "isWon"}

\* a variant of MissingRequired that tests the numbers for falsiness:
\* !characterId || !guessTime || !cluesUsed || !wrongAttempts
MissingRequired_Falsy(body) ==
    \/ "characterId" \notin body.has
    \/ body.characterId = ""
    \/ "guessTime" \notin body.has
    \/ body.guessTime = 0
    \/ "cluesUsed" \notin body.has
    \/ body.cluesUsed = 0
    \/ "wrongAttempts" \notin body.has
    \/ body.wrongAttempts = 0

\* the validation of awardCard: !characterId || guessTime === undefined || ...
MissingRequired(body) ==
    \/ "characterId" \notin body.has
    \/ body.characterId = ""
    \/ "guessTime" \notin body.has
    \/ "cluesUsed" \notin body.has
    \/ "wrongAttempts" \notin body.has

\* the truthiness of the destructured isWon (undefined when absent)
Truthy(body) == "isWon" \in body.has /\ body.isWon

Idle == [pc |-> "idle"]

InFlight == {r \in Req : req[r].pc # "idle"}

\* existingCards.length
existingCardsOf(collection, characterId) == CountCharacter(collection, characterId)

\* a variant of isFirstTimeOf that looks at the whole collection
isFirstTimeOf_AnyCard(collection, characterId) == Len(collection) = 0

\* isFirstTime = existingCards.length === 0
isFirstTimeOf(collection, characterId) ==
    existingCardsOf(collection, characterId) = 0

\* a variant of serialNumberOf that counts the whole collection
serialNumberOf_AllCards(collection, characterId) == Len(collection) + 1

\* serialNumber = existingCards.length + 1
serialNumberOf(collection, characterId) ==
    existingCardsOf(collection, characterId) + 1

\* a variant of Reject in which the collection was fetched before validation
Reject_AfterGetCollection(status, error) ==
    /\ cardCollections' = getCollection("default")
    /\ UNCHANGED <<now, req, log, gameStates>>
    /\ out' = [op |-> "award", status |-> status, success |-> FALSE, error |-> error,
               store |-> <<cardCollections, cardCollections'>>]

\* return res.status(status).json({success: false, error}) before any use of
\* the store; store is history: the store as the request found it and as
\* the response left it
Reject(status, error) ==
    /\ UNCHANGED <<cardCollections, now, req, log, gameStates>>
    /\ out' = [op |-> "award", status |-> status, success |-> FALSE, error |-> error,
               store |-> <<cardCollections, cardCollections'>>]

\* a variant of AwardStart that pushes the card before the await, with the
\* stats computed so far
AwardStart_PushBeforeAwait(r, I) ==
    /\ req[r].pc = "idle"
    /\ \A p \in Req : p < r => req[p].pc # "idle"
    /\ \E body \in I.bodies :
        IF MissingRequired(body) THEN Reject(400, "Missing required fields")
        ELSE IF FindCharacter(body.characterId) = {}
        THEN Reject(404, "Character not found")
        ELSE
            /\ r \in I.slots
            /\ Len(Coll) + Cardinality(InFlight) < I.cap
            /\ \E roll \in I.rolls, vroll \in I.vrolls, h \in I.random :
                LET character == CHOOSE c \in FindCharacter(body.characterId) : TRUE
                    performanceScore ==
                        calculatePerformanceScore(body.guessTime, body.cluesUsed,
                                                  body.wrongAttempts, Truthy(body))
                    rarity == determineRarity(performanceScore, roll)
                    variant == determineVariant(rarity, vroll)
                    early == [id |-> Len(Coll) + 1,
                              characterId |-> body.characterId,
                              rarity |-> rarity,
                              serialNumber |-> serialNumberOf(Coll, body.characterId),
                              maxSupply |-> maxSupplyOf(rarity),
                              unlockedAt |-> toISOString(now),
                              variant |-> variant,
                              stats |-> [popularity |-> popularityOf(character, h)]]
                IN  /\ cardCollections' =
                          [getCollection("default") EXCEPT
                              !["default"] = Append(Coll, early)]
                    /\ req' = [req EXCEPT ![r] =
                          [pc |-> "fetch",
                           body |-> body,
                           character |-> character,
                           performanceScore |-> performanceScore,
                           rarity |-> rarity,
                           variant |-> variant,
                           isFirstTime |-> isFirstTimeOf(Coll, body.characterId),
                           serialNumber |-> serialNumberOf(Coll, body.characterId),
                           maxSupply |-> maxSupplyOf(rarity),
                           popularity |-> popularityOf(character, h)]]
                    /\ UNCHANGED <<now, log, out, gameStates>>

\* awardCard from its entry to the await of fetch inside
\* calculateCharacterStats; I is the set of inputs the request is drawn from
\* and I.slots the invocations that may be in flight together; a request is
\* served by the first idle invocation.
\* The fields of body outside body.has are absent and never read.
AwardStart(r, I) ==
    /\ req[r].pc = "idle"
    /\ \A p \in Req : p < r => req[p].pc # "idle"
    /\ \E body \in I.bodies :
        IF MissingRequired(body) THEN Reject(400, "Missing required fields")
        ELSE IF FindCharacter(body.characterId) = {}
        THEN Reject(404, "Character not found")
        ELSE
            /\ r \in I.slots
            /\ Len(Coll) + Cardinality(InFlight) < I.cap
            /\ \E roll \in I.rolls, vroll \in I.vrolls, h \in I.random :
                LET character == CHOOSE c \in FindCharacter(body.characterId) : TRUE
                    performanceScore ==
                        calculatePerformanceScore(body.guessTime, body.cluesUsed,
                                                  body.wrongAttempts, Truthy(body))
                    rarity == determineRarity(performanceScore, roll)
                    variant == determineVariant(rarity, vroll)
                IN  /\ cardCollections' = getCollection("default")
                    /\ req' = [req EXCEPT ![r] =
                          [pc |-> "fetch",
                           body |-> body,
                           character |-> character,
                           performanceScore |-> performanceScore,
                           rarity |-> rarity,
                           variant |-> variant,
                           isFirstTime |-> isFirstTimeOf(Coll, body.characterId),
                           serialNumber |-> serialNumberOf(Coll, body.characterId),
                           maxSupply |-> maxSupplyOf(rarity),
                           popularity |-> popularityOf(character, h)]]
                    /\ UNCHANGED <<now, log, out, gameStates>>

\* awardCard from the settling of the fetch to the response: the rest of
\* calculateCharacterStats, then mint, push, achievements; an exception
\* reaching the handler's catch gives the 500 response.  The steps between
\* the settling and the push touch only locals of the invocation, so they are
\* taken together with it.
AwardFinish(r, I) ==
    /\ req[r].pc = "fetch"
    /\ \E oracle \in I.oracle, hd \in I.random, hp \in I.random :
        LET q == req[r]
            difficulty == oracleDifficulty(oracle, hd)
            characterStats == [popularity |-> q.popularity,
                               difficulty |-> difficulty.value,
                               power |-> powerOf(q.character, hp)]
            newCard == [id |-> Len(Coll) + 1,
                        characterId |-> q.body.characterId,
                        rarity |-> q.rarity,
                        serialNumber |-> q.serialNumber,
                        maxSupply |-> q.maxSupply,
                        unlockedAt |-> toISOString(now),
                        variant |-> q.variant,
                        stats |-> characterStats]
            pushed == Append(Coll, newCard)
            reward == [card |-> newCard,
                       isFirstTime |-> q.isFirstTime,
                       isDuplicate |-> ~q.isFirstTime,
                       performance |-> [guessTime |-> q.body.guessTime,
                                        cluesUsed |-> q.body.cluesUsed,
                                        wrongAttempts |-> q.body.wrongAttempts,
                                        score |-> q.performanceScore],
                       bonusPercent |-> q.performanceScore,
                       unlockedAchievements |->
                           unlockedAchievementsOf(pushed, q.rarity, q.performanceScore)]
        IN  IF difficulty.threw THEN
                /\ out' = [op |-> "award", status |-> 500, success |-> FALSE,
                           error |-> "Failed to award card", oracle |-> oracle.kind]
                /\ UNCHANGED <<cardCollections, log>>
            ELSE
                /\ cardCollections' = [cardCollections EXCEPT !["default"] = pushed]
                /\ log' = Append(log, [request |-> q.body, reward |-> reward])
                /\ out' = [op |-> "award", status |-> 200, success |-> TRUE,
                           reward |-> reward, prior |-> RarityCount(Coll),
                           oracle |-> oracle.kind]
    /\ req' = [req EXCEPT ![r] = Idle]
    /\ UNCHANGED <<now, gameStates>>

-----------------------------------------------------------------------------
(* The queries *)

\* the award this response follows with no response in between, if any
Follows == IF out.op = "award" /\ out.status = 200 THEN <<out>> ELSE <<>>

\* getCardCollection: the counts are taken, then the stored array is sorted
\* in place and returned
GetCardCollection ==
    LET collection == Coll
        sorted == SortNewestFirst(collection)
    IN  /\ cardCollections' =
              [getCollection("default") EXCEPT !["default"] = sorted]
        /\ out' = [f \in DOMAIN CollectionResponse(sorted, collection) \cup {"follows"} |->
                      IF f = "follows" THEN Follows
                      ELSE CollectionResponse(sorted, collection)[f]]
        /\ UNCHANGED <<now, req, log, gameStates>>

\* getAchievements
GetAchievements ==
    /\ cardCollections' = getCollection("default")
    /\ out' = [op |-> "achievements", achievements |-> allAchievements(Coll)]
    /\ UNCHANGED <<now, req, log, gameStates>>

\* the clock advances
Tick(I) ==
    /\ now < I.clock
    /\ now' = now + 1
    /\ UNCHANGED <<cardCollections, req, log, out, gameStates>>

-----------------------------------------------------------------------------
(* The guessing game *)

\* getTodayDate(): new Date().toISOString().split("T")[0], as a day number
getTodayDate(ms) == toISOString(ms)[1] \div (MsPerDay \div 1000)

\* the display names of the catalog
NameOf(characterId) ==
    IF characterId = "spider-man" THEN "Spider-Man" ELSE "Sherlock Holmes"

\* getCharacterByName(guess): the matches (0 or 1); trims says whether the
\* lookup ignores blanks around the name
getCharacterByName(guess, trims) ==
    {c \in CHARACTERS : NameOf(c.id) = guess.text /\ (trims \/ ~guess.padded)}

\* guess.trim()
Trim(guess) == [guess EXCEPT !.padded = FALSE]

\* req.headers["x-session-id"] as string || "default-session"; a header is
\* <<>> when absent
SessionOf(header) ==
    IF header = <<>> \/ header[1] = "" THEN "default-session" ELSE header[1]

\* `${sessionId}-${today}`
stateKey(sessionId, today) == <<sessionId, today>>

\* gameStates.set(key, state)
MapSet(map, key, state) ==
    [k \in DOMAIN map \cup {key} |-> IF k = key THEN state ELSE map[k]]

\* the condition under which getGameState creates a state
NeedsNewGame(sessionId, today) ==
    \/ stateKey(sessionId, today) \notin DOMAIN gameStates
    \/ gameStates[stateKey(sessionId, today)].date # today

\* the state getGameState creates
NewGame(today, characterId) ==
    [date |-> today, characterId |-> characterId, guesses |-> <<>>,
     isComplete |-> FALSE, isWon |-> FALSE]

\* a variant of NoGuess that tests the type only
NoGuess_TypeOnly(guess) == guess.type # "string"

\* !guess || typeof guess !== "string"
NoGuess(guess) ==
    \/ guess.type = "undefined"
    \/ guess.type = "string" /\ guess.text = ""
    \/ guess.type = "number" /\ guess.value = 0
    \/ guess.type # "string"

\* a variant of ApplyGuess that completes the game on every guess
ApplyGuess_CompleteAlways(state, guessResult) ==
    [state EXCEPT !.guesses = Append(@, guessResult),
                  !.isComplete = TRUE,
                  !.isWon = IF guessResult.isCorrect THEN TRUE ELSE @]

\* state.guesses.push(guessResult); if (isCorrect) { isComplete, isWon = true }
ApplyGuess(state, guessResult) ==
    [state EXCEPT !.guesses = Append(@, guessResult),
                  !.isComplete = IF guessResult.isCorrect THEN TRUE ELSE @,
                  !.isWon = IF guessResult.isCorrect THEN TRUE ELSE @]

\* a response of handleGuess with status 400 or 500; request and store are
\* history: the request, the session's state key at entry, and the Map as
\* the request found it and as the response left it
GuessReject(status, error, header, guess, store) ==
    /\ gameStates' = store
    /\ out' = [op |-> "guess", status |-> status, error |-> error,
               request |-> guess,
               key |-> stateKey(SessionOf(header), getTodayDate(now)),
               store |-> <<gameStates, store>>]
    /\ UNCHANGED <<cardCollections, now, req, log>>

-----------------------------------------------------------------------------
(* Inputs and specifications *)

Body(characterId, guessTime, cluesUsed, wrongAttempts, isWon, has) ==
    [characterId |-> characterId, guessTime |-> guessTime, cluesUsed |-> cluesUsed,
     wrongAttempts |-> wrongAttempts, isWon |-> isWon, has |-> has]

\* requests: perfect games of known characters, an unknown character, and
\* requests lacking one field (the one lacking isWon scores as a lost game)
Bodies ==
    { Body(c, 0, 0, 0, TRUE, Fields) : c \in {"spider-man", "sherlock-holmes"} }
    \cup { Body("unknown-hero", 5, 0, 0, TRUE, Fields) }
    \cup { Body("spider-man", 5, 0, 0, TRUE, Fields \ {f}) : f \in Fields }

Oracles ==
    { [kind |-> "throw"], [kind |-> "notOk"], [kind |-> "badBody"],
      [kind |-> "ok", score10 |-> 0], [kind |-> "ok", score10 |-> 753],
      [kind |-> "ok", score10 |-> 995], [kind |-> "ok", score10 |-> 1000] }

\* the requests of Spec: rolls on both sides of the first rarity threshold
\* these requests meet, one oracle outcome, one random value
Inputs ==
    [bodies |-> Bodies, rolls |-> {19, 20}, vrolls |-> {99},
     random |-> {99}, oracle |-> {[kind |-> "notOk"]},
     slots |-> Req, cap |-> MaxCards, clock |-> MaxClock]

Init ==
    /\ cardCollections = <<>>
    /\ now = 0
    /\ req = [r \in Req |-> Idle]
    /\ log = <<>>
    /\ out = [op |-> "none"]
    /\ gameStates = <<>>

Next ==
    \/ \E r \in Req : AwardStart(r, Inputs)
    \/ \E r \in Req : AwardFinish(r, Inputs)
    \/ GetCardCollection
    \/ GetAchievements
    \/ Tick(Inputs)

Spec == Init /\ [][Next]_vars

\* requests sent one at a time, each after the response to the one before
\* it: perfect games of the known characters, an unknown character, a
\* request without guessTime
SeqInputs ==
    [bodies |-> { Body(c, 0, 0, 0, TRUE, Fields) :
                    c \in {"spider-man", "sherlock-holmes", "unknown-hero"} }
                \cup { Body("spider-man", 0, 0, 0, TRUE, Fields \ {"guessTime"}) },
     rolls |-> {20, 60}, vrolls |-> {99}, random |-> {99},
     oracle |-> {[kind |-> "notOk"]},
     slots |-> {1}, cap |-> SeqCards, clock |-> SeqClock]

NextSeq ==
    \/ \E r \in Req : AwardStart(r, SeqInputs)
    \/ \E r \in Req : AwardFinish(r, SeqInputs)
    \/ GetCardCollection
    \/ GetAchievements
    \/ Tick(SeqInputs)

SpecSeq == Init /\ [][NextSeq]_vars

\* every outcome of the oracle and both ends of the random draws, for
\* perfect games of the known characters, one at a time
OracleInputs ==
    [bodies |-> { Body(c, 0, 0, 0, TRUE, Fields) :
                    c \in {"spider-man", "sherlock-holmes"} },
     rolls |-> {20}, vrolls |-> {99}, random |-> {0, 99}, oracle |-> Oracles,
     slots |-> {1}, cap |-> OracleCards, clock |-> MaxClock]

NextOracle ==
    \/ \E r \in Req : AwardStart(r, OracleInputs)
    \/ \E r \in Req : AwardFinish(r, OracleInputs)
    \/ GetCardCollection
    \/ GetAchievements
    \/ Tick(OracleInputs)

SpecOracle == Init /\ [][NextOracle]_vars

\* many awards of one character, one at a time, past the collector threshold
LongInputs ==
    [bodies |-> { Body("spider-man", 0, 0, 0, TRUE, Fields) },
     rolls |-> {20}, vrolls |-> {99}, random |-> {99},
     oracle |-> {[kind |-> "notOk"]},
     slots |-> {1}, cap |-> LongCards, clock |-> LongClock]

NextLong ==
    \/ \E r \in Req : AwardStart(r, LongInputs)
    \/ \E r \in Req : AwardFinish(r, LongInputs)
    \/ GetCardCollection
    \/ GetAchievements
    \/ Tick(LongInputs)

SpecLong == Init /\ [][NextLong]_vars

\* overlapping awards of perfect games of one character, all legendary, up
\* to the collector threshold
RaceInputs ==
    [bodies |-> { Body("spider-man", 0, 0, 0, TRUE, Fields) },
     rolls |-> {20}, vrolls |-> {99}, random |-> {99},
     oracle |-> {[kind |-> "notOk"]},
     slots |-> {1, 2}, cap |-> RaceCards, clock |-> MaxClock]

NextRace ==
    \/ \E r \in Req : AwardStart(r, RaceInputs)
    \/ \E r \in Req : AwardFinish(r, RaceInputs)

SpecRace == Init /\ [][NextRace]_vars

\* awards of perfect games of one character, one at a time, all mythic, past
\* the supply of a mythic card
SupplyInputs ==
    [bodies |-> { Body("spider-man", 0, 0, 0, TRUE, Fields) },
     rolls |-> {19}, vrolls |-> {99}, random |-> {99},
     oracle |-> {[kind |-> "notOk"]},
     slots |-> {1}, cap |-> SupplyCards, clock |-> MaxClock]

NextSupply ==
    \/ \E r \in Req : AwardStart(r, SupplyInputs)
    \/ \E r \in Req : AwardFinish(r, SupplyInputs)

SpecSupply == Init /\ [][NextSupply]_vars

\* rolls on both sides of every threshold of the rarity buckets >= 95,
\* 80-94 and < 40
DrawRolls == {0, 4, 5, 19, 20, 29, 30, 59, 60, 69, 70, 99}

\* rolls on both sides of every threshold of determineVariant
DrawVariantRolls == {0, 9, 10, 19, 20, 39, 40, 49, 50, 79, 80, 99}

\* complete requests for one character, one at a time: lost games, the
\* all-zero won game, won games with one non-zero field, the two games of
\* the test script, and a won game with large telemetry
DrawInputs ==
    [bodies |-> { Body("spider-man", 0, 0, 0, FALSE, Fields),
                  Body("spider-man", 5, 1, 2, FALSE, Fields),
                  Body("spider-man", 0, 0, 0, TRUE, Fields),
                  Body("spider-man", 1, 0, 0, TRUE, Fields),
                  Body("spider-man", 0, 1, 0, TRUE, Fields),
                  Body("spider-man", 0, 0, 1, TRUE, Fields),
                  Body("spider-man", 5, 0, 0, TRUE, Fields),
                  Body("spider-man", 30, 2, 3, TRUE, Fields),
                  Body("spider-man", 10000, 3, 50, TRUE, Fields) },
     rolls |-> DrawRolls, vrolls |-> DrawVariantRolls, random |-> {99},
     oracle |-> {[kind |-> "notOk"]},
     slots |-> {1}, cap |-> DrawCards, clock |-> MaxClock]

NextDraw ==
    \/ \E r \in Req : AwardStart(r, DrawInputs)
    \/ \E r \in Req : AwardFinish(r, DrawInputs)

SpecDraw == Init /\ [][NextDraw]_vars

\* the card awardCard mints as the i-th card, for one character at
\* millisecond i, with the last variant roll and the stats of a failed oracle
SnapshotCard(i, rarity) ==
    [id |-> i,
     characterId |-> "spider-man",
     rarity |-> rarity,
     serialNumber |-> i,
     maxSupply |-> maxSupplyOf(rarity),
     unlockedAt |-> toISOString(i),
     variant |-> determineVariant(rarity, 99),
     stats |-> [popularity |-> 99, difficulty |-> 50, power |-> 89]]

\* a stored collection of n cards in mint order: card l is legendary and
\* otherwise card m is mythic (0 or past n: there is none), the others are
\* common
Snapshot(n, l, m) ==
    [i \in 1..n |->
        SnapshotCard(i, IF i = l THEN "legendary"
                        ELSE IF i = m THEN "mythic" ELSE "common")]

Snapshots ==
    { Snapshot(n, l, m) :
        n \in 0..MaxSnapshot,
        l \in 0..MaxMark,
        m \in 0..MaxMark }

\* the store before any request, or holding a collection that awards built
InitSnap ==
    /\ cardCollections \in {<<>>} \cup {[default |-> c] : c \in Snapshots}
    /\ now = 0
    /\ req = [r \in Req |-> Idle]
    /\ log = <<>>
    /\ out = [op |-> "none"]
    /\ gameStates = <<>>

\* the two queries on a stored collection
NextSnap ==
    \/ GetCardCollection
    \/ GetAchievements

SpecSnap == InitSnap /\ [][NextSnap]_vars

\* x-session-id headers: absent, one session id
Headers == {<<>>, <<"s1">>}

\* req.body.guess: absent, a number, the empty string, the names of the
\* catalog, a name of the catalog with blanks around it
GuessValues ==
    { [type |-> "undefined"], [type |-> "number", value |-> 7] }
    \cup { [type |-> "string", text |-> t, padded |-> FALSE] :
              t \in {"", "Spider-Man", "Sherlock Holmes"} }
    \cup { [type |-> "string", text |-> "Spider-Man", padded |-> TRUE] }

\* the guesses recorded under a set of state keys
RECURSIVE RecordedGuesses(_)
RecordedGuesses(keys) ==
    IF keys = {} THEN 0
    ELSE LET k == CHOOSE x \in keys : TRUE
         IN  Len(gameStates[k].guesses) + RecordedGuesses(keys \ {k})

\* getRandomCharacter(), called only when getGameState creates a state
RandomCharacters(header) ==
    IF NeedsNewGame(SessionOf(header), getTodayDate(now)) THEN CHARACTERS
    ELSE {CHOOSE c \in CHARACTERS : TRUE}

\* handleGuess.  getGameState reads the date, updateGameState reads it
\* again: midnight says whether the day changes between the two reads.
\* getRandomCharacter is any character of the catalog.
HandleGuess ==
    \E header \in Headers, guess \in GuessValues :
        IF NoGuess(guess)
        THEN GuessReject(400, "Guess is required", header, guess, gameStates)
        ELSE \E random \in RandomCharacters(header),
                trims \in (IF guess.padded THEN BOOLEAN ELSE {TRUE}),
                midnight \in BOOLEAN :
            LET sessionId == SessionOf(header)
                today == getTodayDate(now)
                key == stateKey(sessionId, today)
                state == IF NeedsNewGame(sessionId, today)
                         THEN NewGame(today, random.id) ELSE gameStates[key]
                got == IF NeedsNewGame(sessionId, today)
                       THEN MapSet(gameStates, key, state) ELSE gameStates
                dailyCharacter == FindCharacter(state.characterId)
                isCorrect ==
                    \E g \in getCharacterByName(guess, trims) :
                        \E d \in dailyCharacter : g.id = d.id
                guessResult == [guess |-> Trim(guess), isCorrect |-> isCorrect,
                                timestamp |-> toISOString(now)]
                updated == ApplyGuess(state, guessResult)
                later == IF midnight THEN today + 1 ELSE today
            IN  IF dailyCharacter = {}
                THEN GuessReject(500, "Character not found", header, guess, got)
                ELSE IF state.isComplete
                THEN GuessReject(400, "Game is already complete", header, guess, got)
                ELSE
                    /\ RecordedGuesses(DOMAIN gameStates) < MaxGuesses
                    /\ later <= MaxDay
                    /\ now' = IF midnight THEN later * MsPerDay ELSE now
                    /\ gameStates' =
                          MapSet(MapSet(got, key, updated),
                                 stateKey(sessionId, later), updated)
                    /\ out' = [op |-> "guess", status |-> 200,
                               isCorrect |-> isCorrect,
                               isGameOver |-> updated.isComplete,
                               isWon |-> updated.isWon,
                               attemptsRemaining |-> -1,
                               guessResult |-> guessResult,
                               revealedCharacter |->
                                   IF updated.isComplete
                                   THEN {d.id : d \in dailyCharacter} ELSE {},
                               request |-> guess,
                               key |-> key,
                               store |-> <<gameStates, gameStates'>>]
                    /\ UNCHANGED <<cardCollections, req, log>>

\* the next day begins
DayTick ==
    /\ getTodayDate(now) < MaxDay
    /\ now' = (getTodayDate(now) + 1) * MsPerDay
    /\ UNCHANGED <<cardCollections, req, log, out, gameStates>>

NextGame ==
    \/ HandleGuess
    \/ DayTick

SpecGame == Init /\ [][NextGame]_vars

\* Math.random() * 100, as the integer below it
Rolls == 0..99

\* the values calculatePerformanceScore returns for integer telemetry
Scores == 0..100

GuessTimes == 0..MaxGuessTime \cup {10000}

WrongAttempts == 0..MaxWrongAttempts \cup {50}

\* calls of calculatePerformanceScore
ScoreCalls ==
    { [op |-> "call", fn |-> "calculatePerformanceScore", guessTime |-> g,
       cluesUsed |-> c, wrongAttempts |-> w, isWon |-> b] :
        g \in GuessTimes, c \in 0..MaxClues, w \in WrongAttempts, b \in BOOLEAN }

\* calls of determineRarity, with the roll it draws
RarityCalls ==
    { [op |-> "call", fn |-> "determineRarity", performanceScore |-> p, roll |-> r] :
        p \in Scores, r \in Rolls }

\* calls of determineVariant, with the roll it draws
VariantCalls ==
    { [op |-> "call", fn |-> "determineVariant", rarity |-> x, roll |-> r] :
        x \in Rarities, r \in Rolls }

\* one call of a pure function of rewards.ts is pending in `out`
InitPure ==
    /\ cardCollections = <<>>
    /\ now = 0
    /\ req = [r \in Req |-> Idle]
    /\ log = <<>>
    /\ out \in ScoreCalls \cup RarityCalls \cup VariantCalls
    /\ gameStates = <<>>

\* the call with its return value
Returned(call, value) ==
    [f \in DOMAIN call \cup {"value"} |->
        IF f = "op" THEN "return" ELSE IF f = "value" THEN value ELSE call[f]]

ReturnScore ==
    /\ out.op = "call"
    /\ out.fn = "calculatePerformanceScore"
    /\ out' = Returned(out, calculatePerformanceScore(out.guessTime, out.cluesUsed,
                                                      out.wrongAttempts, out.isWon))
    /\ UNCHANGED <<cardCollections, now, req, log, gameStates>>

ReturnRarity ==
    /\ out.op = "call"
    /\ out.fn = "determineRarity"
    /\ out' = Returned(out, determineRarity(out.performanceScore, out.roll))
    /\ UNCHANGED <<cardCollections, now, req, log, gameStates>>

ReturnVariant ==
    /\ out.op = "call"
    /\ out.fn = "determineVariant"
    /\ out' = Returned(out, determineVariant(out.rarity, out.roll))
    /\ UNCHANGED <<cardCollections, now, req, log, gameStates>>

NextPure ==
    \/ ReturnScore
    \/ ReturnRarity
    \/ ReturnVariant

SpecPure == InitPure /\ [][NextPure]_vars

-----------------------------------------------------------------------------
(* Properties *)

\* the elements of a sequence
Range(s) == {s[i] : i \in 1..Len(s)}

\* the cards minted for a character up to and including card c
MintedUpTo(c) ==
    {d \in Range(Coll) : d.characterId = c.characterId /\ d.id <= c.id}

\* C1: with requests one at a time, the k-th card minted for a character
\* carries serialNumber k, whatever was awarded or queried in between
C1_SerialIsOrdinal ==
    \A c \in Range(Coll) : c.serialNumber = Cardinality(MintedUpTo(c))

C1_Witness ==
    /\ Len(Coll) = 3
    /\ \E a, b, c \in Range(Coll) :
        /\ a.id = 1 /\ b.id = 2 /\ c.id = 3
        /\ a.characterId = c.characterId /\ b.characterId # a.characterId
        /\ c.serialNumber = 2 /\ b.serialNumber = 1
    /\ Coll[1].id = 3

\* C2: no two cards of the same character carry the same serialNumber,
\* also when award requests overlap
C2_NoDuplicateSerial ==
    \A c, d \in Range(Coll) :
        (c.id # d.id /\ c.characterId = d.characterId)
            => c.serialNumber # d.serialNumber

\* C3: with requests one at a time, an award returns isFirstTime = true
\* exactly when it is the first award of its character, and isDuplicate is
\* the negation of isFirstTime
C3_FirstTimeOnce ==
    \A i \in 1..Len(log) :
        /\ log[i].reward.isFirstTime =
              (\A j \in 1..(i - 1) :
                  log[j].reward.card.characterId # log[i].reward.card.characterId)
        /\ log[i].reward.isDuplicate = ~log[i].reward.isFirstTime

C3_Witness ==
    /\ Len(log) = 3
    /\ log[1].reward.isFirstTime
    /\ log[2].reward.isFirstTime
    /\ log[3].reward.isDuplicate
    /\ log[3].reward.card.characterId = log[1].reward.card.characterId

\* the ids in the unlockedAchievements of the i-th successful award
Unlocked(i) == Range(log[i].reward.unlockedAchievements)

\* C4: first-card is reported by the award whose append makes the first card
\* and by no other, collector by the award whose append makes the tenth card
\* and by no other
C4_CountTriggers ==
    \A i \in 1..Len(log) :
        /\ log[i].reward.card.id = i
        /\ ("first-card" \in Unlocked(i)) = (i = 1)
        /\ ("collector" \in Unlocked(i)) = (i = 10)

C4_Witness ==
    /\ Len(log) = 11
    /\ "collector" \in Unlocked(10)
    /\ "collector" \notin Unlocked(11)
    /\ "first-card" \in Unlocked(1)

\* what the two queries answer on a store
QueryView(store) ==
    LET collection == IF "default" \in DOMAIN store THEN store["default"] ELSE <<>>
    IN  <<CollectionResponse(SortNewestFirst(collection), collection),
          allAchievements(collection)>>

\* C5: an award request answered with 400 or 404 leaves the collection store
\* as it found it, and with it the answers of later queries
C5_RejectedLeavesStore ==
    (out.op = "award" /\ out.status \in {400, 404})
        => /\ out.store[2] = out.store[1]
           /\ QueryView(out.store[2]) = QueryView(out.store[1])

C5_Witness ==
    /\ out.op = "award"
    /\ out.status = 404
    /\ Len(Coll) = 2

\* C6: no card is minted for a request that lacks isWon
C6_MissingIsWonRejected ==
    /\ \A i \in 1..Len(log) : "isWon" \in log[i].request.has
    /\ \A r \in InFlight : "isWon" \in req[r].body.has

C8_RoundTrip ==
    (out.op = "collection" /\ out.follows # <<>>)
        => LET award == out.follows[1]
               card == award.reward.card
           IN  /\ out.cards[1] = card
               /\ out.rarityCount =
                    [x \in Rarities |->
                        award.prior[x] + (IF x = card.rarity THEN 1 ELSE 0)]

\* C9: the stored sequence is in unlock order, oldest first
C9_StoredInUnlockOrder ==
    \A i, j \in 1..Len(Coll) : i < j => Coll[i].id < Coll[j].id

\* the unlockedAt of the n-th card ever minted, if there is one
NthMintedAt(n) ==
    LET hits == {c \in Range(Coll) : c.id = n}
    IN  IF hits = {} THEN Undefined ELSE (CHOOSE c \in hits : TRUE).unlockedAt

\* the unlockedAt of the first card ever minted with a rarity, if any
FirstMintedAt(rarity) ==
    LET hits == {c \in Range(Coll) : c.rarity = rarity}
    IN  IF hits = {} THEN Undefined
        ELSE (CHOOSE c \in hits : \A d \in hits : c.id <= d.id).unlockedAt

\* C10: the achievements query reports as unlockedAt of first-card,
\* collector and master-collector the timestamp of the 1st, 10th and 50th
\* card ever minted, and as unlockedAt of legendary-pull and mythic-hunter
\* the timestamp of the first legendary and mythic card ever minted
C10_UnlockedAtOfThreshold ==
    out.op = "achievements"
        => /\ out.achievements[1].unlockedAt = NthMintedAt(1)
           /\ out.achievements[2].unlockedAt = NthMintedAt(10)
           /\ out.achievements[3].unlockedAt = NthMintedAt(50)
           /\ out.achievements[4].unlockedAt = FirstMintedAt("legendary")
           /\ out.achievements[5].unlockedAt = FirstMintedAt("mythic")

\* the five ids of the achievements query
ViewIds == {allAchievements(<<>>)[k].id : k \in 1..5}

\* the ids the achievements query shows as unlocked on a collection:
\* those whose unlockedAt is defined
UnlockedInView(s) ==
    {allAchievements(s)[k].id :
        k \in {k \in 1..5 : allAchievements(s)[k].unlockedAt # Undefined}}

\* C11: the achievements of the query that a successful award reports are
\* exactly those the query shows locked on the collection before the push
\* and unlocked on the collection after it
C11_UnlockedIsViewChange ==
    (out.op = "award" /\ out.status = 200)
        => LET after == Coll
               before == SubSeq(Coll, 1, Len(Coll) - 1)
           IN  /\ after[Len(after)] = out.reward.card
               /\ Range(out.reward.unlockedAchievements) \cap ViewIds
                    = UnlockedInView(after) \ UnlockedInView(before)

\* C12: with requests one at a time, each of first-card, collector,
\* legendary-pull and perfect-game is reported by at most one award
C12_FiresOnce ==
    \A id \in {"first-card", "collector", "legendary-pull", "perfect-game"} :
        \A i, j \in 1..Len(log) :
            (id \in Unlocked(i) /\ id \in Unlocked(j)) => i = j

\* the successful awards of lost games: isWon false
LostAwards == {i \in 1..Len(log) : ~Truthy(log[i].request)}

\* C13 as stated: the card of a lost game is common and standard
C13_LostIsCommonStandard ==
    \A i \in LostAwards :
        /\ log[i].reward.card.rarity = "common"
        /\ log[i].reward.card.variant = "standard"

\* C13: the card of a lost game has score 0 and is common and standard or
\* rare and standard or rare and shiny, never epic, legendary or mythic
C13_LostIsCommonOrRare ==
    \A i \in LostAwards :
        /\ log[i].reward.performance.score = 0
        /\ <<log[i].reward.card.rarity, log[i].reward.card.variant>> \in
              { <<"common", "standard">>, <<"rare", "standard">>,
                <<"rare", "shiny">> }

C13_Witness ==
    /\ Len(log) = 1
    /\ ~log[1].request.isWon
    /\ log[1].reward.card.rarity = "rare"
    /\ log[1].reward.card.variant = "shiny"
    /\ log[1].reward.card.maxSupply = 5000

\* the successful awards with performance score 95 or more
PerfectAwards == {i \in 1..Len(log) : log[i].reward.performance.score >= 95}

Tiers == <<"mythic", "legendary", "epic", "rare", "common">>

Variants == <<"animated", "holographic", "shiny", "standard">>

\* the sum of the first t entries of a table row
RECURSIVE Cumulative(_, _)
Cumulative(share, t) == IF t = 0 THEN 0 ELSE share[t] + Cumulative(share, t - 1)

\* the first name, in the order of names, whose cumulative threshold the roll
\* falls under
FirstUnder(names, share, roll) ==
    names[CHOOSE t \in 1..Len(names) :
            /\ roll < Cumulative(share, t)
            /\ \A u \in 1..(t - 1) : roll >= Cumulative(share, u)]

\* the rolls of 0..99 per tier, for the bucket of a score
RarityShare(performanceScore) ==
    IF performanceScore >= 95 THEN <<20, 40, 40, 0, 0>>
    ELSE IF performanceScore >= 80 THEN <<5, 25, 40, 30, 0>>
    ELSE IF performanceScore >= 60 THEN <<0, 0, 40, 40, 20>>
    ELSE IF performanceScore >= 40 THEN <<0, 0, 10, 40, 50>>
    ELSE <<0, 0, 0, 20, 80>>

\* C15: determineRarity returns the first tier, in the order mythic,
\* legendary, epic, rare, common, whose cumulative threshold the roll falls
\* under, and the rolls of 0..99 per tier number (20,40,40,0,0),
\* (5,25,40,30,0), (0,0,40,40,20), (0,0,10,40,50), (0,0,0,20,80) for the
\* buckets >= 95, 80-94, 60-79, 40-59, < 40
C15_RarityTable ==
    (out.op = "return" /\ out.fn = "determineRarity")
        => /\ out.value = FirstUnder(Tiers, RarityShare(out.performanceScore), out.roll)
           /\ \A t \in 1..5 :
                Cardinality({r \in Rolls :
                    determineRarity(out.performanceScore, r) = Tiers[t]})
                  = RarityShare(out.performanceScore)[t]

C15_Witness ==
    /\ out.op = "return"
    /\ out.fn = "determineRarity"
    /\ out.performanceScore = 80
    /\ out.roll = 4
    /\ out.value = "mythic"

\* the rolls of 0..99 per variant, for a rarity
VariantShare(rarity) ==
    IF rarity = "mythic" THEN <<50, 30, 20, 0>>
    ELSE IF rarity = "legendary" THEN <<20, 30, 30, 20>>
    ELSE IF rarity = "epic" THEN <<0, 10, 30, 60>>
    ELSE IF rarity = "rare" THEN <<0, 0, 20, 80>>
    ELSE <<0, 0, 0, 100>>

ScoreReturned == out.op = "return" /\ out.fn = "calculatePerformanceScore"

\* C17: calculatePerformanceScore returns 0 for every lost game
C17_LostScoresZero ==
    (ScoreReturned /\ ~out.isWon) => out.value = 0

C17_Witness ==
    /\ ScoreReturned
    /\ ~out.isWon
    /\ out.guessTime = 0 /\ out.cluesUsed = 0 /\ out.wrongAttempts = 0
    /\ out.value = 0

\* C18: calculatePerformanceScore returns a value from 0 to 100 for every
\* guessTime >= 0, cluesUsed in 0..3, wrongAttempts >= 0 and isWon
C18_ScoreInRange ==
    ScoreReturned => (out.value >= 0 /\ out.value <= 100)

C18_Witness ==
    /\ ScoreReturned
    /\ out.isWon
    /\ out.guessTime = 10000 /\ out.cluesUsed = 3 /\ out.wrongAttempts = 50
    /\ out.value = 0

\* C19: for a won game calculatePerformanceScore returns
\* max(0, min(100, 100 - min(guessTime, 30) - 10*cluesUsed - 5*wrongAttempts));
\* (5, 0, 0) scores 95 and is drawn from the bucket >= 95, (30, 2, 3) scores
\* 35 and is drawn from the bucket < 40
C19_ScoreFormula ==
    (ScoreReturned /\ out.isWon)
        => LET raw == 100 - Min(out.guessTime, 30) - 10 * out.cluesUsed
                        - 5 * out.wrongAttempts
               bucket(share) ==
                   \A r \in Rolls :
                       determineRarity(out.value, r) = FirstUnder(Tiers, share, r)
           IN  /\ out.value = Max(0, Min(100, raw))
               /\ (out.guessTime = 5 /\ out.cluesUsed = 0 /\ out.wrongAttempts = 0)
                    => (out.value = 95 /\ bucket(<<20, 40, 40, 0, 0>>))
               /\ (out.guessTime = 30 /\ out.cluesUsed = 2 /\ out.wrongAttempts = 3)
                    => (out.value = 35 /\ bucket(<<0, 0, 0, 20, 80>>))

C19_Witness ==
    /\ ScoreReturned
    /\ out.isWon
    /\ out.guessTime = 30 /\ out.cluesUsed = 2 /\ out.wrongAttempts = 3
    /\ out.value = 35

\* C20: an award reports perfect-game exactly when the game is won with
\* guessTime 0, cluesUsed 0 and wrongAttempts 0, and no complete request,
\* those with zero values included, is answered 400
C20_PerfectGameIffAllZero ==
    /\ \A i \in 1..Len(log) :
          ("perfect-game" \in Unlocked(i))
            = (/\ Truthy(log[i].request)
               /\ log[i].request.guessTime = 0
               /\ log[i].request.cluesUsed = 0
               /\ log[i].request.wrongAttempts = 0)
    /\ out.op = "award" => out.status = 200

C20_Witness ==
    /\ Len(log) = 1
    /\ log[1].request.isWon
    /\ log[1].request.guessTime = 0
    /\ log[1].request.cluesUsed = 0
    /\ log[1].request.wrongAttempts = 0
    /\ out.op = "award"
    /\ out.status = 200
    /\ "perfect-game" \in Unlocked(1)

\* C21: a collection response agrees with the stored sequence: cards is the
\* stored sequence, totalCards its length, uniqueCharacters the number of
\* distinct characterIds, rarityCount has the five keys, counts each tier
\* (0 for an absent one), and its counts sum to totalCards
C21_AggregatesAgree ==
    out.op = "collection"
        => /\ out.cards = Coll
           /\ out.totalCards = Len(Coll)
           /\ out.uniqueCharacters = Cardinality({c.characterId : c \in Range(Coll)})
           /\ DOMAIN out.rarityCount = {"common", "rare", "epic", "legendary", "mythic"}
           /\ \A x \in DOMAIN out.rarityCount :
                out.rarityCount[x] = Cardinality({c \in Range(Coll) : c.rarity = x})
           /\ out.rarityCount["common"] + out.rarityCount["rare"]
                + out.rarityCount["epic"] + out.rarityCount["legendary"]
                + out.rarityCount["mythic"] = out.totalCards

C21_Witness ==
    /\ out.op = "collection"
    /\ out.totalCards = 2
    /\ out.uniqueCharacters = 1
    /\ out.rarityCount["mythic"] = 1
    /\ out.rarityCount["legendary"] = 1
    /\ out.rarityCount["epic"] = 0

\* C22: the achievements query answers five records, in order first-card,
\* collector, master-collector, legendary-pull, mythic-hunter, with
\* maxProgress 1, 10, 50, 1, 1 and progress min(totalCards, 1),
\* min(totalCards, 10), min(totalCards, 50), min(#legendary, 1),
\* min(#mythic, 1); unlockedAt is present exactly when progress = maxProgress,
\* and an empty collection gives progress 0 and no unlockedAt five times
C22_AchievementsView ==
    out.op = "achievements"
        => LET a == out.achievements
               total == Len(Coll)
               count(x) == Cardinality({c \in Range(Coll) : c.rarity = x})
               least(n, k) == IF n < k THEN n ELSE k
           IN  /\ [k \in 1..Len(a) |-> a[k].id] =
                    <<"first-card", "collector", "master-collector",
                      "legendary-pull", "mythic-hunter">>
               /\ [k \in 1..Len(a) |-> a[k].maxProgress] = <<1, 10, 50, 1, 1>>
               /\ [k \in 1..Len(a) |-> a[k].progress] =
                    <<least(total, 1), least(total, 10), least(total, 50),
                      least(count("legendary"), 1), least(count("mythic"), 1)>>
               /\ \A k \in 1..Len(a) :
                    (a[k].unlockedAt # Undefined) = (a[k].progress = a[k].maxProgress)
               /\ total = 0 =>
                    \A k \in 1..Len(a) :
                        a[k].progress = 0 /\ a[k].unlockedAt = Undefined

C22_Witness ==
    /\ out.op = "achievements"
    /\ Len(Coll) = 50
    /\ out.achievements[3].progress = 50
    /\ out.achievements[3].unlockedAt # Undefined
    /\ out.achievements[4].progress = 0
    /\ out.achievements[4].unlockedAt = Undefined
    /\ out.achievements[5].progress = 1
    /\ out.achievements[5].unlockedAt = toISOString(3)

\* a card with its three stats, each an integer from 0 to 100
HasAllStats(c) ==
    /\ DOMAIN c.stats = {"popularity", "difficulty", "power"}
    /\ \A f \in DOMAIN c.stats : c.stats[f] \in 0..100

\* C23: every card in the collection, and every card a collection response
\* shows, has its three stats, and the collection holds exactly the cards of
\* the awards that have answered: a request suspended at the oracle call has
\* added none
C23_AppendAfterStats ==
    /\ \A c \in Range(Coll) : HasAllStats(c)
    /\ out.op = "collection" => \A c \in Range(out.cards) : HasAllStats(c)
    /\ Len(Coll) = Len(log)
    /\ Range(Coll) = {log[i].reward.card : i \in 1..Len(log)}

C23_Witness ==
    /\ InFlight # {}
    /\ out.op = "collection"
    /\ Len(out.cards) = 1
    /\ out.cards = Coll
    /\ HasAllStats(Coll[1])

\* C24: a step never removes or changes a stored card, whatever it moves it
\* to, and never shrinks the collection; a step that answers a successful
\* award adds exactly one card, and every other step adds none
C24_CardsKept ==
    [][ /\ \A c \in Range(Coll) : c \in Range(Coll')
        /\ Len(Coll') = Len(Coll) + (Len(log') - Len(log))
        /\ Len(log') - Len(log) \in {0, 1}
        /\ Len(log') = Len(log) + 1 <=> (out'.op = "award" /\ out'.status = 200
                                          /\ out' # out) ]_vars

C24_Witness ==
    /\ Len(log) = 3
    /\ out.op = "collection"
    /\ out.totalCards = 3
    /\ Coll[1].id = 3
    /\ Coll[2].id = 1
    /\ \A i \in 1..3 : log[i].reward.card \in Range(Coll)

\* C25: also when award requests overlap, first-card is reported by the
\* award whose push makes the first card and by no other, collector by the
\* award whose push makes the tenth card and by no other, and legendary-pull
\* by the award whose push makes the first legendary card and by no other
C25_TriggersOnceUnderOverlap ==
    \A i \in 1..Len(log) :
        /\ log[i].reward.card.id = i
        /\ ("first-card" \in Unlocked(i)) = (i = 1)
        /\ ("collector" \in Unlocked(i)) = (i = 10)
        /\ ("legendary-pull" \in Unlocked(i))
             = (/\ log[i].reward.card.rarity = "legendary"
                /\ \A j \in 1..(i - 1) : log[j].reward.card.rarity # "legendary")

C25_Witness ==
    /\ Len(log) = 10
    /\ "collector" \in Unlocked(10)
    /\ "legendary-pull" \in Unlocked(1)
    /\ log[1].reward.isFirstTime /\ log[2].reward.isFirstTime
    /\ log[10].reward.card.serialNumber = 9

\* C26: at most one award of a character returns isFirstTime = true, also
\* when award requests overlap
C26_OneFirstTime ==
    \A i, j \in 1..Len(log) :
        (/\ log[i].reward.card.characterId = log[j].reward.card.characterId
         /\ log[i].reward.isFirstTime
         /\ log[j].reward.isFirstTime) => i = j

\* C27: the maxSupply of a card is 100, 500, 1000, 5000, 10000 for mythic,
\* legendary, epic, rare, common, and its serialNumber is at most its
\* maxSupply
C27_SerialWithinSupply ==
    \A c \in Range(Coll) :
        /\ c.maxSupply = (IF c.rarity = "mythic" THEN 100
                          ELSE IF c.rarity = "legendary" THEN 500
                          ELSE IF c.rarity = "epic" THEN 1000
                          ELSE IF c.rarity = "rare" THEN 5000
                          ELSE 10000)
        /\ c.serialNumber <= c.maxSupply

\* the game state of a guess request's session and day, as the request
\* found it, was complete
FoundComplete ==
    /\ out.key \in DOMAIN out.store[1]
    /\ out.store[1][out.key].date = out.key[2]
    /\ out.store[1][out.key].isComplete

\* the guess of a guess request is missing, not a string, or empty
BadGuess == out.request.type # "string" \/ out.request.text = ""

\* C28: a guess sent to a complete game is answered 400 'Game is already
\* complete' and leaves every game state as it was; so does a request whose
\* guess is missing, not a string or empty, answered 400
C28_CompleteRejects ==
    out.op = "guess"
        => /\ BadGuess =>
                /\ out.status = 400
                /\ out.store[2] = out.store[1]
           /\ (~BadGuess /\ FoundComplete) =>
                /\ out.status = 400
                /\ out.error = "Game is already complete"
                /\ out.store[2] = out.store[1]

C28_Witness ==
    /\ out.op = "guess"
    /\ out.status = 400
    /\ out.error = "Game is already complete"
    /\ out.request.text = "Spider-Man"
    /\ FoundComplete
    /\ Len(gameStates[out.key].guesses) = 2
    /\ gameStates[out.key].isWon

C30_DailyCharacterGlobal ==
    \A j, k \in DOMAIN gameStates :
        gameStates[j].date = gameStates[k].date
            => gameStates[j].characterId = gameStates[k].characterId

====
